---------------------------- MODULE Spec2Model ----------------------------
(***************************************************************************)
(* Poison layer of umm_malloc (src/src/umm_poison.c) over the umm block    *)
(* heap.  The heap is the byte array umm_heap[]: every header field, free  *)
(* list link, length record, guard byte and payload byte is a byte of      *)
(* `mem`, addressed by its machine address, so that a write that lands on  *)
(* a neighbouring field is seen by whoever reads that field next.          *)
(*                                                                         *)
(* Build configuration modelled: size_t and pointers are 16 bits wide,     *)
(* UMM_POISONED_BLOCK_LEN_TYPE is an 8-bit unsigned type, both guards are  *)
(* 4 bytes, umm_block is 8 bytes (4 of header, 4 of body), best fit.  The  *)
(* widths are the smallest the code compiles for, so that a total beyond   *)
(* the range of the length type, and one beyond the range of size_t, are   *)
(* requests a heap of UMM_NUMBLOCKS blocks meets; with wider types the     *)
(* same arithmetic happens at larger sizes.                                *)
(***************************************************************************)
EXTENDS Integers, Sequences, FiniteSets, TLC

(* ------------------------- configuration ------------------------------ *)

POISON_BYTE == 165

UMM_POISON_SIZE_BEFORE == 4

UMM_POISON_SIZE_AFTER == 4

\* sizeof(UMM_POISONED_BLOCK_LEN_TYPE)
LEN_SIZE == 1

\* number of values of UMM_POISONED_BLOCK_LEN_TYPE: 2^(8 * LEN_SIZE)
LEN_MOD == 2 ^ (8 * LEN_SIZE)

\* number of values of size_t
SIZE_MOD == 2 ^ 16

\* sizeof(umm_block)
BLOCK_SIZE == 8

\* sizeof(((umm_block *)0)->header)
HEADER_SIZE == 4

\* sizeof(((umm_block *)0)->body)
BODY_SIZE == 4

UMM_FREELIST_MASK == 32768

UMM_BLOCKNO_MASK == 32767

\* UMM_MALLOC_CFG_HEAP_ADDR
HEAP_ADDR == 1024

\* UMM_MALLOC_CFG_HEAP_SIZE / sizeof(umm_block)
UMM_NUMBLOCKS == 36

NULL == 0

HeapAddrs == HEAP_ADDR .. (HEAP_ADDR + UMM_NUMBLOCKS * BLOCK_SIZE - 1)

(* --------------------------- byte memory ------------------------------ *)

\* little-endian unsigned short at address a
RD16(m, a) == m[a] + 256 * m[a + 1]

WR16(m, a, v) == [m EXCEPT ![a] = v % 256, ![a + 1] = (v \div 256) % 256]

\* memset(ptr, v, n), the bytes stored one at a time
RECURSIVE SetBytes(_, _, _, _)
SetBytes(m, ptr, v, n) ==
    IF n <= 0 THEN m
    ELSE SetBytes([m EXCEPT ![ptr + n - 1] = v], ptr, v, n - 1)

\* memset(ptr, v, n)
MemSet(m, ptr, v, n) ==
    IF n <= BLOCK_SIZE THEN SetBytes(m, ptr, v, n)
    ELSE [a \in DOMAIN m |-> IF a >= ptr /\ a < ptr + n THEN v ELSE m[a]]

\* memmove(dst, src, n); memcpy(dst, src, n) when the two do not overlap
MemMove(m, dst, src, n) ==
    [a \in DOMAIN m |-> IF a >= dst /\ a < dst + n THEN m[a - dst + src] ELSE m[a]]

\* the 16-bit masks of the link field
BlockNo(v) == v % UMM_FREELIST_MASK

IsFree(v) == v >= UMM_FREELIST_MASK

(* --------------------- block accessors (macros) ----------------------- *)

BlockAddr(b) == HEAP_ADDR + b * BLOCK_SIZE

UMM_NBLOCK(m, b) == RD16(m, BlockAddr(b))

UMM_PBLOCK(m, b) == RD16(m, BlockAddr(b) + 2)

UMM_NFREE(m, b) == RD16(m, BlockAddr(b) + HEADER_SIZE)

UMM_PFREE(m, b) == RD16(m, BlockAddr(b) + HEADER_SIZE + 2)

UMM_DATA(b) == BlockAddr(b) + HEADER_SIZE

SetNBLOCK(m, b, v) == WR16(m, BlockAddr(b), v)

SetPBLOCK(m, b, v) == WR16(m, BlockAddr(b) + 2, v)

SetNFREE(m, b, v) == WR16(m, BlockAddr(b) + HEADER_SIZE, v)

SetPFREE(m, b, v) == WR16(m, BlockAddr(b) + HEADER_SIZE + 2, v)

\* (((char *)ptr) - (char *)(&(umm_heap[0]))) / sizeof(umm_block)
BlockOf(ptr) == (ptr - HEAP_ADDR) \div BLOCK_SIZE

(* ----------------------- underlying allocator ------------------------- *)
(* Each C statement is one step s1, s2, ... applied to the heap the       *)
(* statement before it left.                                               *)

umm_init(m) ==
    LET last   == UMM_NUMBLOCKS - 1
        s1(x)  == SetNBLOCK(x, 0, 1)
        s2(x)  == SetNFREE(x, 0, 1)
        s3(x)  == SetPFREE(x, 0, 1)
        s4(x)  == SetNBLOCK(x, 1, last + UMM_FREELIST_MASK)
        s5(x)  == SetNFREE(x, 1, 0)
        s6(x)  == SetPBLOCK(x, 1, 0)
        s7(x)  == SetPFREE(x, 1, 0)
        s8(x)  == SetNBLOCK(x, last, 0)
        s9(x)  == SetPBLOCK(x, last, 1)
    IN  s9(s8(s7(s6(s5(s4(s3(s2(s1(MemSet(m, HEAP_ADDR, 0,
                                          UMM_NUMBLOCKS * BLOCK_SIZE))))))))))

\* if (umm_heap == NULL) umm_init();
EnsureInit(m, h) == IF h = NULL THEN umm_init(m) ELSE m

umm_blocks(size) ==
    IF size <= BODY_SIZE THEN 1
    ELSE 2 + (size - (1 + BODY_SIZE)) \div BLOCK_SIZE

umm_split_block(m, c, blocks, new_freemask) ==
    LET s1(x) == SetNBLOCK(x, c + blocks, BlockNo(UMM_NBLOCK(x, c)) + new_freemask)
        s2(x) == SetPBLOCK(x, c + blocks, c)
        s3(x) == SetPBLOCK(x, BlockNo(UMM_NBLOCK(x, c)), c + blocks)
        s4(x) == SetNBLOCK(x, c, c + blocks)
    IN  s4(s3(s2(s1(m))))

umm_disconnect_from_free_list(m, c) ==
    LET s1(x) == SetNFREE(x, UMM_PFREE(x, c), UMM_NFREE(x, c))
        s2(x) == SetPFREE(x, UMM_NFREE(x, c), UMM_PFREE(x, c))
        s3(x) == SetNBLOCK(x, c, BlockNo(UMM_NBLOCK(x, c)))
    IN  s3(s2(s1(m)))

umm_assimilate_up(m, c) ==
    LET s1(x) == umm_disconnect_from_free_list(x, UMM_NBLOCK(x, c))
        s2(x) == SetPBLOCK(x, BlockNo(UMM_NBLOCK(x, UMM_NBLOCK(x, c))), c)
        s3(x) == SetNBLOCK(x, c, BlockNo(UMM_NBLOCK(x, UMM_NBLOCK(x, c))))
    IN  IF IsFree(UMM_NBLOCK(m, UMM_NBLOCK(m, c))) THEN s3(s2(s1(m))) ELSE m

\* the heap after umm_assimilate_down; the block it returns is UMM_PBLOCK(c)
umm_assimilate_down(m, c, freemask) ==
    LET s1(x) == SetNBLOCK(x, UMM_PBLOCK(x, c), UMM_NBLOCK(x, c) + freemask)
        s2(x) == SetPBLOCK(x, UMM_NBLOCK(x, c), UMM_PBLOCK(x, c))
    IN  s2(s1(m))

\* umm_free from "assimilate with the previous block if possible" on
FreeLink(m, c) ==
    LET s1(x) == SetPFREE(x, UMM_NFREE(x, 0), c)
        s2(x) == SetNFREE(x, c, UMM_NFREE(x, 0))
        s3(x) == SetPFREE(x, c, 0)
        s4(x) == SetNFREE(x, 0, c)
        s5(x) == SetNBLOCK(x, c, UMM_NBLOCK(x, c) + UMM_FREELIST_MASK)
    IN  IF IsFree(UMM_NBLOCK(m, UMM_PBLOCK(m, c)))
        THEN umm_assimilate_down(m, c, UMM_FREELIST_MASK)
        ELSE s5(s4(s3(s2(s1(m)))))

umm_free(m, ptr) ==
    IF ptr = NULL THEN m
    ELSE FreeLink(umm_assimilate_up(m, BlockOf(ptr)), BlockOf(ptr))

\* the best-fit scan of the free list from cf on:
\* <<bestBlock, bestSize, blockSize>> when the loop ends
RECURSIVE BestFit(_, _, _, _, _, _)
BestFit(m, cf, blocks, bestBlock, bestSize, blockSize) ==
    IF cf = 0 THEN << bestBlock, bestSize, blockSize >>
    ELSE IF BlockNo(UMM_NBLOCK(m, cf)) - cf >= blocks
            /\ BlockNo(UMM_NBLOCK(m, cf)) - cf < bestSize
    THEN BestFit(m, UMM_NFREE(m, cf), blocks, cf,
                 BlockNo(UMM_NBLOCK(m, cf)) - cf, BlockNo(UMM_NBLOCK(m, cf)) - cf)
    ELSE BestFit(m, UMM_NFREE(m, cf), blocks, bestBlock, bestSize,
                 BlockNo(UMM_NBLOCK(m, cf)) - cf)

\* umm_malloc once the scan has settled on block cf of blockSize blocks
MallocAt(m, blocks, cf, blockSize) ==
    LET s1(x) == umm_split_block(x, cf, blocks, UMM_FREELIST_MASK)
        s2(x) == SetNFREE(x, UMM_PFREE(x, cf), cf + blocks)
        s3(x) == SetPFREE(x, cf + blocks, UMM_PFREE(x, cf))
        s4(x) == SetPFREE(x, UMM_NFREE(x, cf), cf + blocks)
        s5(x) == SetNFREE(x, cf + blocks, UMM_NFREE(x, cf))
    IN  IF BlockNo(UMM_NBLOCK(m, cf)) # 0 /\ blockSize >= blocks
        THEN IF blockSize = blocks
             THEN [mem |-> umm_disconnect_from_free_list(m, cf), ret |-> UMM_DATA(cf)]
             ELSE [mem |-> s5(s4(s3(s2(s1(m))))), ret |-> UMM_DATA(cf)]
        ELSE [mem |-> m, ret |-> NULL]

\* if (0x7FFF != bestSize) { cf = bestBlock; blockSize = bestSize; }
MallocScanned(m, blocks, scan) ==
    IF scan[2] # UMM_BLOCKNO_MASK
    THEN MallocAt(m, blocks, scan[1], scan[2])
    ELSE MallocAt(m, blocks, 0, scan[3])

\* umm_malloc on an initialised heap: [mem, ret]
umm_malloc(m, size) ==
    IF size = 0 THEN [mem |-> m, ret |-> NULL]
    ELSE MallocScanned(m, umm_blocks(size),
                       BestFit(m, UMM_NFREE(m, 0), umm_blocks(size), UMM_NFREE(m, 0),
                               UMM_BLOCKNO_MASK, 0))

\* umm_realloc, new block: r is what umm_malloc returned
ReallocNew(r, m, ptr, curSize) ==
    IF r.ret # NULL
    THEN [mem |-> umm_free(MemMove(r.mem, r.ret, ptr, curSize), ptr), ret |-> r.ret]
    ELSE [mem |-> m, ret |-> NULL]

\* umm_realloc from "now calculate the block size again" on
ReallocFit(m, ptr, size, blocks, c, curSize) ==
    IF UMM_NBLOCK(m, c) - c = blocks THEN [mem |-> m, ret |-> ptr]
    ELSE IF UMM_NBLOCK(m, c) - c > blocks
    THEN [mem |-> umm_free(umm_split_block(m, c, blocks, 0), UMM_DATA(c + blocks)),
          ret |-> ptr]
    ELSE ReallocNew(umm_malloc(m, size), m, ptr, curSize)

\* umm_realloc, assimilating down: p is the previous block, free and big enough
ReallocDown(m, ptr, size, blocks, c, curSize, p) ==
    LET s1(x) == umm_disconnect_from_free_list(x, p)
        s2(x) == umm_assimilate_down(x, c, 0)
        s3(x) == MemMove(x, UMM_DATA(p), ptr, curSize)
    IN  ReallocFit(s3(s2(s1(m))), UMM_DATA(p), size, blocks, p, curSize)

\* umm_realloc after umm_assimilate_up
ReallocGrown(m, ptr, size, blocks, c, curSize) ==
    IF /\ IsFree(UMM_NBLOCK(m, UMM_PBLOCK(m, c)))
       /\ blocks <= UMM_NBLOCK(m, c) - UMM_PBLOCK(m, c)
    THEN ReallocDown(m, ptr, size, blocks, c, curSize, UMM_PBLOCK(m, c))
    ELSE ReallocFit(m, ptr, size, blocks, c, curSize)

\* umm_realloc of block c to `blocks` blocks
ReallocBlock(m, ptr, size, blocks, c) ==
    IF UMM_NBLOCK(m, c) - c = blocks THEN [mem |-> m, ret |-> ptr]
    ELSE ReallocGrown(umm_assimilate_up(m, c), ptr, size, blocks, c,
                      (UMM_NBLOCK(m, c) - c) * BLOCK_SIZE - HEADER_SIZE)

\* umm_realloc on an initialised heap: [mem, ret]
umm_realloc(m, ptr, size) ==
    IF ptr = NULL THEN umm_malloc(m, size)
    ELSE IF size = 0 THEN [mem |-> umm_free(m, ptr), ret |-> NULL]
    ELSE ReallocBlock(m, ptr, size, umm_blocks(size), BlockOf(ptr))

(* ----------------------------- poison layer --------------------------- *)

\* variant of poison_size that adds the overhead to a request of size 0 too
poison_size_of_zero(s) ==
    UMM_POISON_SIZE_BEFORE + LEN_SIZE + UMM_POISON_SIZE_AFTER

poison_size(s) ==
    IF s # 0 THEN UMM_POISON_SIZE_BEFORE + LEN_SIZE + UMM_POISON_SIZE_AFTER
    ELSE 0

put_poison(m, ptr, n) == MemSet(m, ptr, POISON_BYTE, n)

\* *(UMM_POISONED_BLOCK_LEN_TYPE *)ptr
ReadLen(m, ptr) == IF LEN_SIZE = 1 THEN m[ptr] ELSE RD16(m, ptr)

\* *(UMM_POISONED_BLOCK_LEN_TYPE *)ptr = (UMM_POISONED_BLOCK_LEN_TYPE)v
WriteLen(m, ptr, v) ==
    IF LEN_SIZE = 1 THEN [m EXCEPT ![ptr] = v % LEN_MOD]
    ELSE WR16(m, ptr, v % LEN_MOD)

\* the value check_poison returns; when it is FALSE the fatal assertion fires
check_poison(m, ptr, n) ==
    \A i \in 0 .. (n - 1) : m[ptr + i] = POISON_BYTE

\* where check_poison_block looks for the guard after the payload
AfterGuardAt(m, pc) == pc + ReadLen(m, pc) - UMM_POISON_SIZE_AFTER

\* check_poison_block(&UMM_BLOCK(c)): ok is the value returned (or that would
\* be returned, had the assertion not fired), fatal says that
\* APP_ERROR_CHECK_BOOL(false) was reached, where/at is the message logged.
check_poison_block(m, c) ==
    IF IsFree(UMM_NBLOCK(m, c))
    THEN [block |-> c, ok |-> TRUE, fatal |-> FALSE, where |-> "free",
          at |-> BlockAddr(c)]
    ELSE LET pc == UMM_DATA(c)
             before == pc + LEN_SIZE
         IN  IF ~check_poison(m, before, UMM_POISON_SIZE_BEFORE)
             THEN [block |-> c, ok |-> FALSE, fatal |-> TRUE, where |-> "before",
                   at |-> before]
             ELSE IF ~check_poison(m, AfterGuardAt(m, pc), UMM_POISON_SIZE_AFTER)
             THEN [block |-> c, ok |-> FALSE, fatal |-> TRUE, where |-> "after",
                   at |-> AfterGuardAt(m, pc)]
             ELSE [block |-> c, ok |-> TRUE, fatal |-> FALSE, where |-> "none",
                   at |-> NULL]

\* variant of get_poisoned that adjusts the pointer it was given without
\* testing it for NULL
get_poisoned_of_null(m, ptr, size_w_poison) ==
    IF size_w_poison # 0
    THEN LET p == IF ptr # NULL THEN ptr ELSE HEAP_ADDR
             m1 == put_poison(m, p + LEN_SIZE, UMM_POISON_SIZE_BEFORE)
             m2 == put_poison(m1, p + size_w_poison - UMM_POISON_SIZE_AFTER,
                              UMM_POISON_SIZE_AFTER)
             m3 == WriteLen(m2, p, size_w_poison)
         IN  [mem |-> IF ptr # NULL THEN m3 ELSE m,
              ret |-> ptr + LEN_SIZE + UMM_POISON_SIZE_BEFORE,
              writes |->
                { ptr + LEN_SIZE + i : i \in 0 .. (UMM_POISON_SIZE_BEFORE - 1) }
                \cup { ptr + size_w_poison - UMM_POISON_SIZE_AFTER + i :
                         i \in 0 .. (UMM_POISON_SIZE_AFTER - 1) }
                \cup { ptr + i : i \in 0 .. (LEN_SIZE - 1) }]
    ELSE [mem |-> m, ret |-> ptr, writes |-> {}]

\* get_poisoned: [mem, ret, writes], writes being the addresses it stored to
get_poisoned(m, ptr, size_w_poison) ==
    IF size_w_poison # 0 /\ ptr # NULL
    THEN LET m1 == put_poison(m, ptr + LEN_SIZE, UMM_POISON_SIZE_BEFORE)
             m2 == put_poison(m1, ptr + size_w_poison - UMM_POISON_SIZE_AFTER,
                              UMM_POISON_SIZE_AFTER)
             m3 == WriteLen(m2, ptr, size_w_poison)
         IN  [mem |-> m3, ret |-> ptr + LEN_SIZE + UMM_POISON_SIZE_BEFORE,
              writes |->
                { ptr + LEN_SIZE + i : i \in 0 .. (UMM_POISON_SIZE_BEFORE - 1) }
                \cup { ptr + size_w_poison - UMM_POISON_SIZE_AFTER + i :
                         i \in 0 .. (UMM_POISON_SIZE_AFTER - 1) }
                \cup { ptr + i : i \in 0 .. (LEN_SIZE - 1) }]
    ELSE [mem |-> m, ret |-> ptr, writes |-> {}]

\* variant of get_unpoisoned that steps back over the guard only, not over
\* the length record
get_unpoisoned_guard_only(m, ptr) ==
    IF ptr # NULL
    THEN LET raw == ptr - UMM_POISON_SIZE_BEFORE
         IN  [ret |-> raw, checks |-> << check_poison_block(m, BlockOf(raw)) >>]
    ELSE [ret |-> ptr, checks |-> << >>]

\* get_unpoisoned: [ret, checks]; checks is the sequence of calls of
\* check_poison_block it made (none for a null pointer)
get_unpoisoned(m, ptr) ==
    IF ptr # NULL
    THEN LET raw == ptr - (LEN_SIZE + UMM_POISON_SIZE_BEFORE)
         IN  [ret |-> raw, checks |-> << check_poison_block(m, BlockOf(raw)) >>]
    ELSE [ret |-> ptr, checks |-> << >>]

\* the loop of umm_poison_check from block cur on: the blocks it looked at and
\* the calls of check_poison_block it made, in order.  wild says that cur
\* became an index outside umm_heap[]: UMM_NBLOCK(cur) then reads whatever
\* lies there, and what the loop does from there on is undefined.
RECURSIVE PoisonWalk(_, _, _, _)
\* the loop body for a used block, r being what check_poison_block returned
WalkUsed(m, cur, seen, checks, r) ==
    IF ~r.ok
    THEN [seen |-> Append(seen, cur), checks |-> Append(checks, r),
          wild |-> FALSE]
    ELSE PoisonWalk(m, BlockNo(UMM_NBLOCK(m, cur)), Append(seen, cur),
                    Append(checks, r))

PoisonWalk(m, cur, seen, checks) ==
    IF cur >= UMM_NUMBLOCKS
    THEN [seen |-> seen, checks |-> checks, wild |-> TRUE]
    ELSE IF BlockNo(UMM_NBLOCK(m, cur)) = 0
    THEN [seen |-> seen, checks |-> checks, wild |-> FALSE]
    ELSE IF ~IsFree(UMM_NBLOCK(m, cur))
    THEN WalkUsed(m, cur, seen, checks, check_poison_block(m, cur))
    ELSE PoisonWalk(m, BlockNo(UMM_NBLOCK(m, cur)), Append(seen, cur), checks)

(* ------------------------------ bounds -------------------------------- *)

\* number of calls (facade calls and caller writes) in a run
MaxOps == 4

\* request sizes tried: none, small, several blocks, one whose total does not
\* fit the length record, and three whose total wraps around size_t (to 1, to
\* BEFORE and to BEFORE + LEN_SIZE)
SmallSize == 1

MidSize == 12

BigSize == LEN_MOD

\* a size whose total, cut to the length record, is BEFORE + LEN_SIZE
AliasSize == LEN_MOD - UMM_POISON_SIZE_AFTER

WrapSizes ==
    { SIZE_MOD - poison_size(1) + 1,
      SIZE_MOD - (LEN_SIZE + UMM_POISON_SIZE_BEFORE), SIZE_MOD - UMM_POISON_SIZE_AFTER }

Sizes == { 0, SmallSize, MidSize, AliasSize, BigSize } \cup WrapSizes

\* sizes tried by realloc of a pointer held: the above, with one wrapping total
ReallocSizes ==
    { 0, SmallSize, MidSize, BigSize, SIZE_MOD - (LEN_SIZE + UMM_POISON_SIZE_BEFORE) }

\* <<num, item_size>> pairs tried by calloc: a small product, one whose total
\* does not fit the length record, and two products of 2^16 or more, which
\* wrap to 16 and to BigSize
CallocArgs ==
    { <<3, 4>>, <<BigSize, 1>>, <<4097, 16>>, <<(SIZE_MOD + BigSize) \div 16, 16>> }

\* bytes a caller stores in its payload
FillBytes == { 90 }

\* the bytes of a guard a stray write hits: its first or its last
GuardOffsets == { 0, UMM_POISON_SIZE_BEFORE - 1 }

\* the byte a stray write leaves in a guard or length record
StrayByte == 0

(* ------------------------------- state -------------------------------- *)

VARIABLES
    mem,       \* the bytes of umm_heap[], by address
    umm_heap,  \* NULL before umm_init, HEAP_ADDR after
    status,    \* "running", "halted" (fatal assertion), "clobbered", "undefined"
    live,      \* the allocations the caller holds
    stale,     \* pointers the caller has given back and still remembers
    tamper,    \* guard / length-record bytes of live allocations the caller overwrote
    dirty,     \* the caller has overwritten a guard or length-record byte at some point
    filled,    \* the allocations whose payload the caller has filled
    obs,       \* what the last call did
    nops       \* calls made so far

vars == << mem, umm_heap, status, live, stale, tamper, dirty, filled, obs, nops >>

NoObs(op, args) ==
    [op |-> op, args |-> args, ret |-> NULL, returned |-> TRUE,
     ucalls |-> << >>, checks |-> << >>, seen |-> << >>, writes |-> {}]

Init ==
    /\ mem = [a \in HeapAddrs |-> 0]
    /\ umm_heap = NULL
    /\ status = "running"
    /\ live = {}
    /\ stale = {}
    /\ tamper = {}
    /\ dirty = FALSE
    /\ filled = {}
    /\ obs = NoObs("start", << >>)
    /\ nops = 0

LivePtrs == { a.ptr : a \in live }

AllocAt(p) == CHOOSE a \in live : a.ptr = p

\* first address past the body of the block that holds raw
BlockEnd(m, raw) == BlockAddr(BlockNo(UMM_NBLOCK(m, BlockOf(raw))))

\* the poison layer wrote outside the block the allocator handed out
Clobbers(m, raw, w) ==
    raw # NULL /\ \E a \in w : a < raw \/ a >= BlockEnd(m, raw)

Fatal(checks) == \E i \in DOMAIN checks : checks[i].fatal

CanStep == status = "running" /\ nops < MaxOps

(* ------------------------------ facade -------------------------------- *)

\* What a call did: the heap it leaves, the value it returns (returned is
\* FALSE when the fatal assertion fired or the behaviour became undefined
\* first), the calls it made of the allocator (ucalls) and of
\* check_poison_block (checks), the blocks umm_poison_check looked at (seen),
\* the addresses the poison layer wrote (writes), what the allocator returned
\* (raw) and the total size the facade computed (total).
Outcome(m, ret, returned, ucalls, checks, seen, writes, raw, total) ==
    [mem |-> m, ret |-> ret, returned |-> returned, ucalls |-> ucalls,
     checks |-> checks, seen |-> seen, writes |-> writes, raw |-> raw,
     total |-> total, clobber |-> Clobbers(m, raw, writes), wild |-> FALSE]

\* the call once get_poisoned has returned g, u being what the allocator returned
Returned(u, g, total, ucall, checks) ==
    Outcome(g.mem, g.ret, TRUE, << << ucall[1], ucall[2], u.ret >> >>, checks,
            << >>, g.writes, u.ret, total)

\* ret = get_poisoned(ret, size), u being what the allocator returned
Poisoned(u, total, ucall, checks) ==
    Returned(u, get_poisoned(u.mem, u.ret, total), total, ucall, checks)

\* memset(ret, 0x00, size) when ret is not null
Zeroed(u, total) ==
    IF u.ret # NULL THEN [mem |-> MemSet(u.mem, u.ret, 0, total), ret |-> u.ret]
    ELSE u

\* the addresses memset(ret, 0x00, size) writes
ZeroWrites(r) ==
    IF r.raw # NULL THEN { r.raw + i : i \in 0 .. (r.total - 1) } ELSE {}

\* size += poison_size(size)
WithPoison(size) == (size + poison_size(size)) % SIZE_MOD

umm_poison_malloc(m, h, size) ==
    Poisoned(umm_malloc(EnsureInit(m, h), WithPoison(size)), WithPoison(size),
             << "umm_malloc", << WithPoison(size) >> >>, << >>)

CallocPoisoned(r) == [r EXCEPT !.writes = ZeroWrites(r) \cup r.writes]

umm_poison_calloc(m, h, num, item_size) ==
    CallocPoisoned(
        Poisoned(Zeroed(umm_malloc(EnsureInit(m, h),
                                   WithPoison((item_size * num) % SIZE_MOD)),
                        WithPoison((item_size * num) % SIZE_MOD)),
                 WithPoison((item_size * num) % SIZE_MOD),
                 << "umm_malloc", << WithPoison((item_size * num) % SIZE_MOD) >> >>,
                 << >>))

\* umm_poison_realloc once get_unpoisoned has returned un
ReallocUnpoisoned(m, h, un, size) ==
    IF Fatal(un.checks)
    THEN Outcome(m, NULL, FALSE, << >>, un.checks, << >>, {}, NULL, 0)
    ELSE Poisoned(umm_realloc(EnsureInit(m, h), un.ret, WithPoison(size)),
                  WithPoison(size),
                  << "umm_realloc", << un.ret, WithPoison(size) >> >>, un.checks)

umm_poison_realloc(m, h, ptr, size) ==
    ReallocUnpoisoned(m, h, get_unpoisoned(m, ptr), size)

\* umm_poison_free once get_unpoisoned has returned un
FreeUnpoisoned(m, un) ==
    IF Fatal(un.checks)
    THEN Outcome(m, NULL, FALSE, << >>, un.checks, << >>, {}, NULL, 0)
    ELSE Outcome(umm_free(m, un.ret), NULL, TRUE,
                 << << "umm_free", << un.ret >>, NULL >> >>,
                 un.checks, << >>, {}, NULL, 0)

umm_poison_free(m, ptr) == FreeUnpoisoned(m, get_unpoisoned(m, ptr))

\* umm_poison_check once the loop has ended
Checked(m, r) ==
    [Outcome(m, IF \A i \in DOMAIN r.checks : r.checks[i].ok THEN 1 ELSE 0,
             ~Fatal(r.checks) /\ ~r.wild, << >>, r.checks, r.seen, {}, NULL, 0)
     EXCEPT !.wild = r.wild]

\* variant of CheckHeap whose loop starts one block further down the chain
CheckHeap_from_second(m) ==
    Checked(m, PoisonWalk(m, BlockNo(UMM_NBLOCK(m, BlockNo(UMM_NBLOCK(m, 0)))),
                          << >>, << >>))

\* umm_poison_check on the heap m, initialised
CheckHeap(m) ==
    Checked(m, PoisonWalk(m, BlockNo(UMM_NBLOCK(m, 0)), << >>, << >>))

umm_poison_check(m, h) == CheckHeap(EnsureInit(m, h))

\* what the caller can see of a call, and what it did underneath
Observed(op, args, r) ==
    [op |-> op, args |-> args, ret |-> r.ret, returned |-> r.returned,
     ucalls |-> r.ucalls, checks |-> r.checks, seen |-> r.seen,
     writes |-> r.writes]

\* the caller's record of an allocation: the pointer it holds, the raw pointer
\* the allocator returned, the size in bytes it asked for (req), that size as
\* the facade computed it (size) and the total passed to the allocator
Allocation(ptr, raw, req, size, total) ==
    [ptr |-> ptr, raw |-> raw, req |-> req, size |-> size, total |-> total]

StatusAfter(r) ==
    IF r.wild THEN "undefined"
    ELSE IF ~r.returned THEN "halted"
    ELSE IF r.clobber THEN "clobbered"
    ELSE "running"

\* the caller calls umm_poison_malloc(size)
PoisonMalloc(size) ==
    /\ CanStep
    /\ \E r \in { umm_poison_malloc(mem, umm_heap, size) } :
           /\ mem' = r.mem
           /\ status' = StatusAfter(r)
           /\ live' = IF r.ret # NULL
                      THEN live \cup { Allocation(r.ret, r.raw, size, size, r.total) }
                      ELSE live
           /\ stale' = stale \ { r.ret }
           /\ obs' = Observed("malloc", << size >>, r)
    /\ umm_heap' = HEAP_ADDR
    /\ nops' = nops + 1
    /\ UNCHANGED << tamper, dirty, filled >>

\* the caller calls umm_poison_calloc(num, item_size)
PoisonCalloc(num, item_size) ==
    /\ CanStep
    /\ \E r \in { umm_poison_calloc(mem, umm_heap, num, item_size) } :
           /\ mem' = r.mem
           /\ status' = StatusAfter(r)
           /\ live' = IF r.ret # NULL
                      THEN live \cup
                           { Allocation(r.ret, r.raw, item_size * num,
                                        (item_size * num) % SIZE_MOD, r.total) }
                      ELSE live
           /\ stale' = stale \ { r.ret }
           /\ obs' = Observed("calloc", << num, item_size >>, r)
    /\ umm_heap' = HEAP_ADDR
    /\ nops' = nops + 1
    /\ UNCHANGED << tamper, dirty, filled >>

\* the caller calls umm_poison_realloc(ptr, size), ptr null or a pointer it holds
PoisonRealloc(ptr, size) ==
    /\ CanStep
    /\ ptr \in LivePtrs \cup { NULL }
    /\ \E r \in { umm_poison_realloc(mem, umm_heap, ptr, size) } :
         LET gone == r.returned /\ ptr # NULL /\ (r.raw # NULL \/ r.total = 0)
             kept == IF gone THEN { a \in live : a.ptr # ptr } ELSE live
         IN  /\ mem' = r.mem
             /\ status' = StatusAfter(r)
             /\ umm_heap' = IF r.returned THEN HEAP_ADDR ELSE umm_heap
             /\ live' = IF r.ret # NULL
                        THEN kept \cup { Allocation(r.ret, r.raw, size, size, r.total) }
                        ELSE kept
             /\ stale' = (IF gone THEN stale \cup { ptr } ELSE stale) \ { r.ret }
             /\ tamper' = IF gone THEN { t \in tamper : t.ptr # ptr } ELSE tamper
             /\ filled' = IF gone THEN filled \ { ptr } ELSE filled
             /\ obs' = Observed("realloc", << ptr, size >>, r)
    /\ nops' = nops + 1
    /\ UNCHANGED dirty

\* the caller calls umm_poison_free(ptr), ptr null or a pointer it holds
PoisonFree(ptr) ==
    /\ CanStep
    /\ ptr \in LivePtrs \cup { NULL }
    /\ \E r \in { umm_poison_free(mem, ptr) } :
         LET gone == r.returned /\ ptr # NULL
         IN  /\ mem' = r.mem
             /\ status' = StatusAfter(r)
             /\ live' = IF gone THEN { a \in live : a.ptr # ptr } ELSE live
             /\ stale' = IF gone THEN stale \cup { ptr } ELSE stale
             /\ tamper' = IF gone THEN { t \in tamper : t.ptr # ptr } ELSE tamper
             /\ filled' = IF gone THEN filled \ { ptr } ELSE filled
             /\ obs' = Observed("free", << ptr >>, r)
    /\ nops' = nops + 1
    /\ UNCHANGED << umm_heap, dirty >>

\* umm_poison_free(ptr) or umm_poison_realloc(ptr, size) with a pointer the
\* caller gave back before, whose block is marked free.  get_unpoisoned
\* returns; the allocator then indexes umm_heap[] with the link field of the
\* free block, free bit included (umm_assimilate_up), far outside the array:
\* from there on the behaviour is undefined, and no later call is modelled.
PoisonStale(op, ptr, size) ==
    /\ CanStep
    /\ ptr \in stale
    /\ IsFree(UMM_NBLOCK(mem, BlockOf(ptr - (LEN_SIZE + UMM_POISON_SIZE_BEFORE))))
    /\ \E un \in { get_unpoisoned(mem, ptr) } :
           /\ status' = IF Fatal(un.checks) THEN "halted" ELSE "undefined"
           /\ obs' = [op |-> op,
                      args |-> IF op = "free" THEN << ptr >> ELSE << ptr, size >>,
                      ret |-> NULL, returned |-> FALSE, ucalls |-> << >>,
                      checks |-> un.checks, seen |-> << >>, writes |-> {}]
    /\ nops' = nops + 1
    /\ UNCHANGED << mem, umm_heap, live, stale, tamper, dirty, filled >>

\* the caller calls umm_poison_check()
PoisonCheck ==
    /\ status \in { "running", "clobbered" }
    /\ nops < MaxOps
    /\ \E r \in { umm_poison_check(mem, umm_heap) } :
           /\ mem' = r.mem
           /\ status' = IF r.returned THEN status ELSE StatusAfter(r)
           /\ obs' = Observed("check", << >>, r)
    /\ umm_heap' = HEAP_ADDR
    /\ nops' = nops + 1
    /\ UNCHANGED << live, stale, tamper, dirty, filled >>

(* ------------------------------ caller -------------------------------- *)

\* an allocation whose payload lies where the caller was told it does
Usable(a) == a.size > 0 /\ a.total = a.size + poison_size(a.size)

\* the caller fills the payload of one of its allocations
UserFill(ptr, v) ==
    /\ CanStep
    /\ ptr \in LivePtrs
    /\ Usable(AllocAt(ptr))
    /\ mem' = MemSet(mem, ptr, v, AllocAt(ptr).size)
    /\ ptr \notin filled
    /\ filled' = filled \cup { ptr }
    /\ obs' = NoObs("fill", << ptr, v >>)
    /\ nops' = nops + 1
    /\ UNCHANGED << umm_heap, status, live, stale, tamper, dirty >>

\* where the guards of an allocation are
BeforeGuard(a) == a.raw + LEN_SIZE

AfterGuard(a) == a.raw + a.total - UMM_POISON_SIZE_AFTER

GuardAt(a, where) == IF where = "before" THEN BeforeGuard(a) ELSE AfterGuard(a)

\* a stray write of the caller: byte i of a guard of one of its allocations
TamperGuard(ptr, where, i) ==
    /\ CanStep
    /\ ptr \in LivePtrs
    /\ Usable(AllocAt(ptr))
    /\ LET a == AllocAt(ptr)
       IN  /\ mem' = [mem EXCEPT ![GuardAt(a, where) + i] = StrayByte]
           /\ tamper' = tamper \cup
                 { [ptr |-> ptr, where |-> where, at |-> GuardAt(a, where),
                    byte |-> GuardAt(a, where) + i] }
    /\ \A t \in tamper : t.ptr # ptr
    /\ dirty' = TRUE
    /\ UNCHANGED filled
    /\ obs' = NoObs("tamper", << ptr, where, i >>)
    /\ nops' = nops + 1
    /\ UNCHANGED << umm_heap, status, live, stale >>

\* a stray write of the caller: the length record of one of its allocations
TamperRecord(ptr) ==
    /\ CanStep
    /\ ptr \in LivePtrs
    /\ Usable(AllocAt(ptr))
    /\ LET a == AllocAt(ptr)
       IN  /\ mem' = [mem EXCEPT ![a.raw] = StrayByte]
           /\ tamper' = tamper \cup
                 { [ptr |-> ptr, where |-> "record", at |-> a.raw, byte |-> a.raw] }
    /\ \A t \in tamper : t.ptr # ptr
    /\ dirty' = TRUE
    /\ UNCHANGED filled
    /\ obs' = NoObs("tamper", << ptr, "record", 0 >>)
    /\ nops' = nops + 1
    /\ UNCHANGED << umm_heap, status, live, stale >>

(* --------------------------- specification ---------------------------- *)

Next ==
    \/ \E size \in Sizes : PoisonMalloc(size)
    \/ \E na \in CallocArgs : PoisonCalloc(na[1], na[2])
    \/ \E ptr \in LivePtrs, size \in ReallocSizes : PoisonRealloc(ptr, size)
    \/ \E size \in { 0, SmallSize } : PoisonRealloc(NULL, size)
    \/ \E ptr \in LivePtrs \cup { NULL } : PoisonFree(ptr)
    \/ \E ptr \in stale : PoisonStale("free", ptr, 0)
    \/ \E ptr \in stale, size \in { 0, SmallSize } : PoisonStale("realloc", ptr, size)
    \/ PoisonCheck
    \/ \E ptr \in LivePtrs, v \in FillBytes : UserFill(ptr, v)
    \/ \E ptr \in LivePtrs, where \in { "before", "after" },
          i \in GuardOffsets : TamperGuard(ptr, where, i)
    \/ \E ptr \in LivePtrs : TamperRecord(ptr)

Spec == Init /\ [][Next]_vars

(* ------------------------------- claims ------------------------------- *)

\* n bytes of poison at addr
PoisonAt(addr, n) ==
    \A i \in 0 .. (n - 1) : addr + i \in HeapAddrs /\ mem[addr + i] = POISON_BYTE

\* both guards of the allocation a hold poison
GuardsHoldPoison(a) ==
    /\ PoisonAt(BeforeGuard(a), UMM_POISON_SIZE_BEFORE)
    /\ PoisonAt(AfterGuard(a), UMM_POISON_SIZE_AFTER)

\* C1: as long as the caller writes only inside the payloads it was given,
\* every live allocation of a non-zero size has each byte of its before-guard
\* and of its after-guard equal to POISON_BYTE.
C1_GuardsHoldPoison ==
    ~dirty => \A a \in live : a.size > 0 => GuardsHoldPoison(a)

\* C2: umm_poison_check returns success whenever the caller has overwritten no
\* guard byte and no length record (in particular right after a
\* umm_poison_malloc of a non-zero size that returned non-null).
C2_CheckSucceedsUntouched ==
    (obs.op = "check" /\ ~dirty) => (obs.returned /\ obs.ret = 1)

\* the last call of check_poison_block a call made
LastCheck == obs.checks[Len(obs.checks)]

\* C3: with exactly one byte of a guard of a live allocation overwritten,
\* umm_poison_check fails, and the violation reported names the side
\* overwritten and the address of that guard.
C3_CheckReportsGuard ==
    \A t \in tamper :
        (obs.op = "check" /\ tamper = { t } /\ t.where \in { "before", "after" })
        => /\ ~(obs.returned /\ obs.ret = 1)
           /\ obs.checks # << >>
           /\ ~LastCheck.ok
           /\ LastCheck.where = t.where
           /\ LastCheck.at = t.at

\* a guard of the allocation a does not hold poison
GuardCorrupted(a) == Usable(a) /\ ~GuardsHoldPoison(a)

\* the step is a call of umm_poison_free or umm_poison_realloc with a pointer
\* the caller holds, a guard of which is corrupted
CallOnCorrupted ==
    /\ nops' = nops + 1
    /\ obs'.op \in { "free", "realloc" }
    /\ obs'.args[1] \in LivePtrs
    /\ GuardCorrupted(AllocAt(obs'.args[1]))

\* C4: umm_poison_free and umm_poison_realloc, called with a non-null pointer a
\* guard of which is corrupted, halt: they do not return, and umm_free or
\* umm_realloc is not called.
C4_CorruptedHalts ==
    [][CallOnCorrupted =>
         (status' = "halted" /\ ~obs'.returned /\ obs'.ucalls = << >>)]_vars

\* what umm_malloc returns for a request of size 0
ZeroPtr == umm_malloc(EnsureInit(mem, umm_heap), 0).ret

\* C5: umm_poison_malloc(0) passes the size 0 to umm_malloc, writes no guard
\* and no length record and returns the pointer umm_malloc returned;
\* umm_poison_free of that pointer verifies no block and passes the same
\* pointer to umm_free.
C5_ZeroSizeUnpoisoned ==
    /\ (obs.op = "malloc" /\ obs.args = << 0 >>)
       => /\ obs.returned
          /\ obs.ucalls = << << "umm_malloc", << 0 >>, obs.ret >> >>
          /\ obs.ret = ZeroPtr
          /\ obs.writes = {}
          /\ obs.checks = << >>
    /\ (obs.op = "free" /\ obs.args = << ZeroPtr >>)
       => /\ obs.returned
          /\ obs.checks = << >>
          /\ obs.ucalls = << << "umm_free", << ZeroPtr >>, NULL >> >>

\* umm_poison_free of the pointer of a zero-size request, on a heap in use
C5_Witness ==
    /\ obs.op = "free" /\ obs.args = << ZeroPtr >>
    /\ obs.ucalls # << >>
    /\ umm_heap = HEAP_ADDR
    /\ live # {}

\* the caller has overwritten the length record of the allocation a
RecordTampered(a) == \E t \in tamper : t.ptr = a.ptr /\ t.where = "record"

\* the total of the allocation a, not cut to any width
ExactTotal(a) == LEN_SIZE + UMM_POISON_SIZE_BEFORE + UMM_POISON_SIZE_AFTER + a.size

\* C6: the length record of an allocation of size S > 0 holds
\* LEN_SIZE + BEFORE + AFTER + S exactly, whatever that sum is, and
\* check_poison_block locates the guard after the payload at
\* raw + that value - AFTER.
C6_LengthRecordExact ==
    \A a \in live :
        (Usable(a) /\ a.req = a.size /\ ~RecordTampered(a))
        => /\ ReadLen(mem, a.raw) = ExactTotal(a)
           /\ AfterGuardAt(mem, a.raw) = a.raw + ExactTotal(a) - UMM_POISON_SIZE_AFTER

\* the last call was an allocating one, and the allocator returned NULL to it
AllocatorReturnedNull ==
    /\ obs.op \in { "malloc", "calloc", "realloc" }
    /\ obs.ucalls # << >>
    /\ obs.ucalls[1][3] = NULL

\* C7 as stated: when the allocator returns NULL the call returns NULL, writes
\* no guard, zero-fill or length record, and verifies no block.
C7_NullNoCheck ==
    AllocatorReturnedNull
    => (obs.ret = NULL /\ obs.writes = {} /\ obs.checks = << >>)

\* the block of the pointer a call was given
ArgBlock == BlockOf(obs.args[1] - (LEN_SIZE + UMM_POISON_SIZE_BEFORE))

\* C7, amended: when the allocator returns NULL the call returns NULL and
\* writes no guard, zero-fill or length record; the only verification in the
\* call is the one umm_poison_realloc makes of the block of a non-null ptr,
\* which passed before umm_realloc was called.
C7_NullPropagated ==
    AllocatorReturnedNull
    => /\ obs.returned
       /\ obs.ret = NULL
       /\ obs.writes = {}
       /\ IF obs.op = "realloc" /\ obs.args[1] # NULL
          THEN /\ Len(obs.checks) = 1
               /\ obs.checks[1].block = ArgBlock
               /\ obs.checks[1].ok
          ELSE obs.checks = << >>

\* umm_realloc could not grow a block that had passed verification
C7_Witness ==
    /\ AllocatorReturnedNull
    /\ obs.op = "realloc" /\ obs.args[1] # NULL /\ obs.args[2] > 0
    /\ obs.checks # << >>
    /\ obs.args[1] \in LivePtrs

\* C8: check_poison_block, called for a block marked free, does not halt and
\* returns failure.
C8_FreeBlockFails ==
    \A i \in DOMAIN obs.checks :
        obs.checks[i].where = "free"
        => (~obs.checks[i].fatal /\ ~obs.checks[i].ok)

\* the step is a call of umm_poison_check on an initialised heap
CheckStep ==
    /\ nops' = nops + 1
    /\ obs'.op = "check"
    /\ umm_heap = HEAP_ADDR

\* C9: on an initialised heap umm_poison_check changes no byte of the heap;
\* called again with nothing in between it returns what it returned before;
\* it returns success when the caller has overwritten no guard and no length
\* record.
C9_CheckIdempotent ==
    [][CheckStep =>
         /\ mem' = mem
         /\ umm_heap' = umm_heap
         /\ (obs.op = "check" =>
                (obs'.returned = obs.returned /\ obs'.ret = obs.ret))
         /\ (~dirty => (obs'.returned /\ obs'.ret = 1))]_vars

\* the blocks of the chain from block b on, the terminating one included; the
\* chain ends early where a link points outside umm_heap[]
RECURSIVE ChainFrom(_, _)
ChainFrom(m, b) ==
    IF b >= UMM_NUMBLOCKS THEN << >>
    ELSE IF BlockNo(UMM_NBLOCK(m, b)) = 0 THEN << b >>
    ELSE << b >> \o ChainFrom(m, BlockNo(UMM_NBLOCK(m, b)))

Chain == ChainFrom(mem, 0)

\* a link of the chain points outside umm_heap[]
ChainLeavesHeap ==
    \E i \in DOMAIN Chain : BlockNo(UMM_NBLOCK(mem, Chain[i])) >= UMM_NUMBLOCKS

\* block b is not marked free
Used(b) == ~IsFree(UMM_NBLOCK(mem, b))

CheckedBlocks == { obs.checks[i].block : i \in DOMAIN obs.checks }

SeenBlocks == { obs.seen[i] : i \in DOMAIN obs.seen }

\* C10 as stated: umm_poison_check verifies every block of the chain that is
\* not marked free, the last block of the chain included, and none that is
\* marked free; it fails at the first block whose verification fails, and
\* looks at no later block.
C10_EveryUsedBlock ==
    obs.op = "check"
    => /\ \A i \in DOMAIN obs.checks : Used(obs.checks[i].block)
       /\ (\A i \in DOMAIN obs.checks : obs.checks[i].ok)
          => \A j \in DOMAIN Chain : Used(Chain[j]) => Chain[j] \in CheckedBlocks
       /\ \A i \in DOMAIN obs.checks :
            ~obs.checks[i].ok
            => /\ i = Len(obs.checks)
               /\ obs.seen[Len(obs.seen)] = obs.checks[i].block
               /\ ~(obs.returned /\ obs.ret = 1)

\* the chain without block 0 and without the block that terminates it
Inner ==
    IF ChainLeavesHeap THEN SubSeq(Chain, 2, Len(Chain))
    ELSE SubSeq(Chain, 2, Len(Chain) - 1)

\* verification of block b fails
Fails(b) == Used(b) /\ ~check_poison_block(mem, b).ok

\* the place in Inner of the first block whose verification fails, 0 if none
FirstFail ==
    IF \E i \in DOMAIN Inner : Fails(Inner[i])
    THEN CHOOSE i \in DOMAIN Inner :
             Fails(Inner[i]) /\ \A j \in 1 .. (i - 1) : ~Fails(Inner[j])
    ELSE 0

\* the blocks the loop has to look at
Walked == IF FirstFail = 0 THEN Inner ELSE SubSeq(Inner, 1, FirstFail)

\* C10, amended: umm_poison_check looks at the blocks of the chain in order,
\* block 0 and the terminating block left out, and verifies those not marked
\* free and no other; at the first block whose verification fails the fatal
\* assertion fires and no later block is looked at; with no such block it
\* returns success, unless a link of the chain (overwritten by the guards of
\* a request whose total wrapped) points outside umm_heap[], where the loop
\* reads outside the array.
C10_EveryInnerUsedBlock ==
    obs.op = "check"
    => /\ obs.seen = Walked
       /\ Len(obs.checks) = Len(SelectSeq(Walked, Used))
       /\ \A i \in DOMAIN obs.checks :
            obs.checks[i] = check_poison_block(mem, SelectSeq(Walked, Used)[i])
       /\ (FirstFail = 0 /\ ~ChainLeavesHeap) = (obs.returned /\ obs.ret = 1)
       /\ (FirstFail # 0) => (status = "halted" /\ ~obs.returned)
       /\ (FirstFail = 0 /\ ChainLeavesHeap) => status = "undefined"

\* umm_poison_check stopped at a block with a used block after it in the chain
C10_Witness ==
    /\ obs.op = "check"
    /\ ~obs.returned
    /\ \E i \in DOMAIN Inner : Used(Inner[i]) /\ Inner[i] \notin SeenBlocks
    /\ \E i \in DOMAIN Inner : ~Used(Inner[i])

\* the last call was umm_poison_calloc, of a non-zero product, and returned
\* a pointer
CallocReturned ==
    /\ obs.op = "calloc"
    /\ obs.returned
    /\ obs.ret # NULL
    /\ (obs.args[1] * obs.args[2]) % SIZE_MOD # 0

\* C11: when umm_poison_calloc(num, item_size) returns non-null for a
\* non-zero product, every one of the item_size * num payload bytes is zero,
\* every guard byte is POISON_BYTE (the zero-fill of the total came before
\* the guards were written) and the length record holds the total.
C11_CallocZeroedAndPoisoned ==
    CallocReturned
    => \A a \in live :
         a.ptr = obs.ret
         => /\ \A i \in 0 .. (a.size - 1) : mem[a.ptr + i] = 0
            /\ GuardsHoldPoison(a)
            /\ ReadLen(mem, a.raw) = a.total

\* item_size * num as the caller means it, and as size_t holds it
TrueProduct == obs.args[1] * obs.args[2]

WrappedProduct == TrueProduct % SIZE_MOD

\* the last call was umm_poison_calloc with a product that size_t cannot hold
CallocOverflowed == obs.op = "calloc" /\ TrueProduct >= SIZE_MOD

\* C12: when item_size * num is 2^w or more, umm_poison_calloc does not fail:
\* it asks umm_malloc for the wrapped product plus its overhead and, when
\* that succeeds, returns a poisoned pointer whose length record and
\* after-guard are those of the wrapped product, which is less than the
\* product the caller asked for.
C12_CallocWraps ==
    CallocOverflowed
    => /\ obs.returned
       /\ Len(obs.ucalls) = 1
       /\ obs.ucalls[1][1] = "umm_malloc"
       /\ obs.ucalls[1][2] = << WrappedProduct + poison_size(WrappedProduct) >>
       /\ WrappedProduct < TrueProduct
       /\ obs.ucalls[1][3] # NULL
          => /\ obs.ret = obs.ucalls[1][3] + LEN_SIZE + UMM_POISON_SIZE_BEFORE
             /\ ReadLen(mem, obs.ucalls[1][3])
                  = WrappedProduct + poison_size(WrappedProduct)
             /\ AfterGuardAt(mem, obs.ucalls[1][3]) = obs.ret + WrappedProduct
             /\ PoisonAt(obs.ret + WrappedProduct, UMM_POISON_SIZE_AFTER)

\* size + overhead of the last call of umm_poison_realloc
NewTotal == obs.args[2] + poison_size(obs.args[2])

\* C13: umm_poison_realloc(ptr, size) verifies the block of a non-null ptr
\* before umm_realloc is called, and verifies nothing for a null ptr; when
\* size > 0 and umm_realloc returns non-null, both guards of the allocation
\* returned hold poison where the new total size + overhead puts them and
\* its length record holds that total, wherever the block now is.
C13_ReallocRepoisons ==
    obs.op = "realloc"
    => /\ IF obs.args[1] # NULL
          THEN /\ Len(obs.checks) = 1
               /\ obs.checks[1].block = ArgBlock
               /\ obs.ucalls # << >> => obs.checks[1].ok
          ELSE obs.checks = << >>
       /\ (obs.args[2] > 0 /\ obs.ucalls # << >> /\ obs.ucalls[1][3] # NULL)
          => /\ obs.returned
             /\ obs.ret = obs.ucalls[1][3] + LEN_SIZE + UMM_POISON_SIZE_BEFORE
             /\ PoisonAt(obs.ucalls[1][3] + LEN_SIZE, UMM_POISON_SIZE_BEFORE)
             /\ PoisonAt(obs.ucalls[1][3] + NewTotal - UMM_POISON_SIZE_AFTER,
                         UMM_POISON_SIZE_AFTER)
             /\ ReadLen(mem, obs.ucalls[1][3]) = NewTotal

\* no block occurs twice in the sequence q
NoRepeat(q) == \A i, j \in DOMAIN q : q[i] = q[j] => i = j

\* C14: umm_poison_check comes to an end on every heap the facade calls can
\* leave (initialising the heap first when it has to), and looks at each
\* block of the chain at most once, in the order of the chain.
C14_CheckTerminates ==
    obs.op = "check"
    => /\ status # "undefined"
       /\ umm_heap = HEAP_ADDR
       /\ NoRepeat(obs.seen)
       /\ \A i \in DOMAIN obs.seen : i + 1 \in DOMAIN Chain /\ obs.seen[i] = Chain[i + 1]

\* the step is a call that returned a pointer for a size that is not 0
AllocStep ==
    /\ nops' = nops + 1
    /\ obs'.op \in { "malloc", "calloc", "realloc" }
    /\ obs'.returned
    /\ obs'.ret # NULL

\* the step is a call of umm_poison_free or umm_poison_realloc with a
\* pointer the caller holds
ReleaseStep ==
    /\ nops' = nops + 1
    /\ obs'.op \in { "free", "realloc" }
    /\ obs'.args[1] \in LivePtrs

\* C15: a non-null pointer returned for a non-zero size is
\* raw + LEN_SIZE + BEFORE, raw being what the allocator returned;
\* umm_poison_free and umm_poison_realloc, given that pointer later, verify
\* the block whose body starts at raw, found by truncated division, and pass
\* raw itself to umm_free or umm_realloc.
C15_PointerRoundTrip ==
    [][/\ AllocStep
          => /\ Len(obs'.ucalls) = 1
             /\ obs'.ret = obs'.ucalls[1][3] + LEN_SIZE + UMM_POISON_SIZE_BEFORE
             /\ \E a \in live' : a.ptr = obs'.ret /\ a.raw = obs'.ucalls[1][3]
       /\ ReleaseStep
          => /\ Len(obs'.checks) = 1
             /\ obs'.checks[1].block = BlockOf(AllocAt(obs'.args[1]).raw)
             /\ UMM_DATA(obs'.checks[1].block) = AllocAt(obs'.args[1]).raw
             /\ obs'.ucalls # << >>
                => obs'.ucalls[1][2][1] = AllocAt(obs'.args[1]).raw]_vars

\* umm_poison_realloc moved an allocation: the old pointer was translated
\* back for umm_realloc, the new one forth for the caller
C15_Witness ==
    /\ obs.op = "realloc"
    /\ obs.args[1] # NULL
    /\ obs.ucalls # << >>
    /\ obs.ret # NULL
    /\ obs.ret # obs.args[1]

\* the last call was umm_poison_malloc or umm_poison_realloc, of a size that
\* is not 0, and returned a pointer
SizedAllocReturned ==
    /\ obs.op \in { "malloc", "realloc" }
    /\ obs.returned
    /\ obs.ret # NULL
    /\ obs.args[Len(obs.args)] > 0

\* what umm_malloc or umm_realloc returned to the last call, and the number of
\* bytes the call had asked it for
RawAt == obs.ucalls[1][3]

Requested == obs.ucalls[1][2][Len(obs.ucalls[1][2])]

\* the length record, the before-guard, the payload of the size asked for and
\* the after-guard of the allocation returned, each as << first, past-last >>
Layout ==
    << << RawAt, RawAt + LEN_SIZE >>,
       << RawAt + LEN_SIZE, RawAt + LEN_SIZE + UMM_POISON_SIZE_BEFORE >>,
       << obs.ret, obs.ret + obs.args[Len(obs.args)] >>,
       << RawAt + Requested - UMM_POISON_SIZE_AFTER, RawAt + Requested >> >>

\* C16: for every size > 0, with size + overhead computed modulo 2^w, when
\* umm_poison_malloc or umm_poison_realloc returns non-null the length
\* record, the before-guard, the payload of size bytes and the after-guard
\* are pairwise disjoint and lie inside the total bytes asked of the
\* allocator, and no guard or length-record write lands outside them.
C16_LayoutInsideTotal ==
    SizedAllocReturned
    => /\ obs.writes \subseteq { x \in HeapAddrs : RawAt <= x /\ x < RawAt + Requested }
       /\ \A i \in DOMAIN Layout :
            RawAt <= Layout[i][1] /\ Layout[i][2] <= RawAt + Requested
       /\ \A i, j \in DOMAIN Layout :
            i < j => (Layout[i][2] <= Layout[j][1] \/ Layout[j][2] <= Layout[i][1])

Min(x, y) == IF x < y THEN x ELSE y

\* the step is a call of umm_poison_realloc with a pointer the caller holds
\* and a size that is not 0, in which umm_realloc was called
ResizeStep ==
    /\ nops' = nops + 1
    /\ obs'.op = "realloc"
    /\ obs'.args[1] \in LivePtrs
    /\ obs'.args[2] > 0
    /\ obs'.ucalls # << >>

\* C17: umm_poison_realloc(p, n), n > 0, returning non-null q leaves the
\* first min(old size, n) payload bytes at q equal to those that were at p;
\* when umm_realloc returns NULL the allocation at p keeps its guards and
\* its length record as they were.
C17_ReallocKeepsData ==
    [][ResizeStep =>
         /\ obs'.ucalls[1][3] # NULL
            => \A i \in 0 .. (Min(AllocAt(obs'.args[1]).size, obs'.args[2]) - 1) :
                   /\ obs'.ret + i \in HeapAddrs
                   /\ mem'[obs'.ret + i] = mem[obs'.args[1] + i]
         /\ obs'.ucalls[1][3] = NULL
            => /\ AllocAt(obs'.args[1]) \in live'
               /\ mem'[AllocAt(obs'.args[1]).raw] = mem[AllocAt(obs'.args[1]).raw]
               /\ \A i \in 0 .. (UMM_POISON_SIZE_BEFORE - 1) :
                    mem'[BeforeGuard(AllocAt(obs'.args[1])) + i]
                      = mem[BeforeGuard(AllocAt(obs'.args[1])) + i]
               /\ \A i \in 0 .. (UMM_POISON_SIZE_AFTER - 1) :
                    mem'[AfterGuard(AllocAt(obs'.args[1])) + i]
                      = mem[AfterGuard(AllocAt(obs'.args[1])) + i]]_vars

=============================================================================
